---- MODULE Spec2Model ----
(***************************************************************************)
(* A model of kg_traefik2: the Traefik2Builder of kg_traefik2/builder.py   *)
(* over the option schema of kg_traefik2/option.py.                        *)
(*                                                                         *)
(* Python scalars are written as strings: None is "None", True is "True",  *)
(* False is "False", a str is itself, an int is its decimal text.  An      *)
(* option instance is a sparse mapping: a function whose domain is the set *)
(* of option paths the caller supplied.                                    *)
(***************************************************************************)
EXTENDS Integers, Sequences, FiniteSets, TLC

VARIABLES
    options,        \* Traefik2Builder.options: the supplied option instance
    phase,          \* "new" before __init__, "constructed" after it returned, "failed" after it raised
    error,          \* the message of the exception __init__ raised, or None
    namespace_attr, \* Traefik2Builder._namespace
    object_names,   \* the name registry filled by object_names_init
    configfile,     \* Traefik2Builder.configfile: the cached configuration text
    result          \* the outcome of the last call made on the builder

vars == <<options, phase, error, namespace_attr, object_names, configfile, result>>

None == "None"
True == "True"
False == "False"

\* The Traefik2ConfigFile template object given as config.traefik_config.
Template == "<Traefik2ConfigFile>"

---------------------------------------------------------------------------
(* Option schema: Traefik2Options.define_options *)

DefaultPorts ==
    << [name |-> "web", port_container |-> "80", port_service |-> "80",
        protocol |-> "TCP", in_service |-> TRUE],
       [name |-> "metrics", port_container |-> "9090", port_service |-> None,
        protocol |-> "TCP", in_service |-> FALSE] >>

DefaultArgs ==
    << "--entrypoints.web.Address=:80", "--entryPoints.metrics.address=:9090",
       "--metrics.prometheus=true", "--metrics.prometheus.entryPoint=metrics" >>

\* The leaves define_options declares, each with its default_value (None
\* where the OptionDef gives none).
default_value ==
    [ p \in { "basename", "namespace", "config.traefik_args", "config.ports",
              "config.create_traefik_crd", "config.enable_prometheus",
              "config.prometheus_port", "config.prometheus_annotation",
              "config.authorization.serviceaccount_create",
              "config.authorization.serviceaccount_use",
              "config.authorization.roles_create",
              "config.authorization.roles_bind",
              "container.traefik2", "kubernetes.resources.deployment" } |->
        CASE p = "basename" -> "traefik2"
          [] p = "namespace" -> "default"
          [] p = "config.traefik_args" -> DefaultArgs
          [] p = "config.ports" -> DefaultPorts
          [] p = "config.create_traefik_crd" -> True
          [] p = "config.enable_prometheus" -> True
          [] p = "config.prometheus_port" -> "9090"
          [] p = "config.prometheus_annotation" -> False
          [] p = "config.authorization.serviceaccount_create" -> True
          [] p = "config.authorization.serviceaccount_use" -> None
          [] p = "config.authorization.roles_create" -> True
          [] p = "config.authorization.roles_bind" -> True
          [] p = "container.traefik2" -> "traefik:v2.2"
          [] p = "kubernetes.resources.deployment" -> None ]

\* The option paths the schema declares.
define_options == DOMAIN default_value

\* The class attributes of Traefik2Options.
Traefik2Options_attrs == { "define_options" }

---------------------------------------------------------------------------
(* Option resolution *)

\* option_get delegates to the resolver of the kubragen library, which is
\* modelled by its contract: resolving a path the schema does not declare
\* fails with a configuration error, whatever the option instance holds.
path_unknown(name) == name \notin define_options

\* The resolved value of a declared path: the supplied value, else the
\* schema default.
option_get(name) ==
    IF name \in DOMAIN options THEN options[name] ELSE default_value[name]

\* basename(suffix): '{}{}'.format(option_get('basename'), suffix)
basename(suffix) == option_get("basename") \o suffix

namespace == namespace_attr

---------------------------------------------------------------------------
(* Construction: Traefik2Builder.__init__ *)

NoNames == [ k \in {} |-> None ]

\* serviceaccount_name without the '' -> None step of line 107-108.
serviceaccount_name_keep_empty ==
    IF option_get("config.authorization.serviceaccount_create") # False
    THEN basename("")
    ELSE option_get("config.authorization.serviceaccount_use")

serviceaccount_name ==
    IF option_get("config.authorization.serviceaccount_create") # False
    THEN basename("")
    ELSE LET use == option_get("config.authorization.serviceaccount_use")
         IN  IF use = "" THEN None ELSE use

role_name ==
    IF option_get("config.authorization.roles_create") # False
    THEN basename("")
    ELSE None

\* rolebinding_check with the two tests in the other order.
rolebinding_check_role_first ==
    IF option_get("config.authorization.roles_bind") # False
    THEN IF role_name = None
         THEN "To bind roles the role must be created"
         ELSE IF serviceaccount_name = None
              THEN "To bind roles a service account is required"
              ELSE None
    ELSE None

\* rolebinding_check without the test of the role.
rolebinding_check_no_role ==
    IF option_get("config.authorization.roles_bind") # False
    THEN IF serviceaccount_name = None
         THEN "To bind roles a service account is required"
         ELSE None
    ELSE None

\* The exception the role-binding check raises, or None.
rolebinding_check ==
    IF option_get("config.authorization.roles_bind") # False
    THEN IF serviceaccount_name = None
         THEN "To bind roles a service account is required"
         ELSE IF role_name = None
              THEN "To bind roles the role must be created"
              ELSE None
    ELSE None

rolebinding_name ==
    IF option_get("config.authorization.roles_bind") # False
    THEN basename("")
    ELSE None

\* object_names_init with the service named basename('-service').
object_names_init_suffixed ==
    [ k \in { "config", "service", "service-account", "cluster-role",
              "cluster-role-binding", "deployment", "pod-label-app" } |->
        CASE k = "config" -> basename("-config")
          [] k = "service" -> basename("-service")
          [] k = "service-account" -> serviceaccount_name
          [] k = "cluster-role" -> role_name
          [] k = "cluster-role-binding" -> rolebinding_name
          [] k = "deployment" -> basename("")
          [] k = "pod-label-app" -> basename("") ]

object_names_init ==
    [ k \in { "config", "service", "service-account", "cluster-role",
              "cluster-role-binding", "deployment", "pod-label-app" } |->
        CASE k = "config" -> basename("-config")
          [] k = "service" -> basename("")
          [] k = "service-account" -> serviceaccount_name
          [] k = "cluster-role" -> role_name
          [] k = "cluster-role-binding" -> rolebinding_name
          [] k = "deployment" -> basename("")
          [] k = "pod-label-app" -> basename("") ]

NoResult == [ op |-> "none", arg |-> None, raised |-> None, ret |-> <<>> ]

__init__ ==
    /\ phase = "new"
    /\ namespace_attr' = option_get("namespace")
    /\ configfile' = None
    /\ IF rolebinding_check # None
       THEN /\ phase' = "failed"
            /\ error' = rolebinding_check
            /\ object_names' = NoNames
            /\ result' = [ op |-> "__init__", arg |-> None,
                           raised |-> "InvalidParamError", ret |-> <<>> ]
       ELSE /\ phase' = "constructed"
            /\ error' = None
            /\ object_names' = object_names_init
            /\ result' = [ op |-> "__init__", arg |-> None,
                           raised |-> None, ret |-> <<>> ]
    /\ UNCHANGED options

object_name(name) == object_names[name]

---------------------------------------------------------------------------
(* Outcomes of a call: what it raised (None when it returned), what it     *)
(* returned, and the cached configuration text it leaves behind.           *)

Return(value, cache) == [ raised |-> None, ret |-> value, configfile |-> cache ]
Raise(exception, cache) == [ raised |-> exception, ret |-> <<>>, configfile |-> cache ]

\* kubragen.object.Object(data, name=, source=, instance=)
Object(data, name, source, instance) ==
    [ name |-> name, source |-> source, instance |-> instance, data |-> data ]

\* kubragen.data.ValueData(value, enabled=)
ValueData(value, enabled) == [ value |-> value, enabled |-> enabled ]

\* kubragen.data.ValueData(value=, disabled_if_none=True)
ValueData_disabled_if_none(value) == [ value |-> value, enabled |-> value # None ]

SOURCE_NAME == "kg_traefik2"

BUILD_CRD == "crd"
BUILD_ACCESSCONTROL == "accesscontrol"
BUILD_CONFIG == "config"
BUILD_SERVICE == "service"

BUILDITEM_CONFIG == "config"
BUILDITEM_SERVICE_ACCOUNT == "service-account"
BUILDITEM_CLUSTER_ROLE == "cluster-role"
BUILDITEM_CLUSTER_ROLE_BINDING == "cluster-role-binding"
BUILDITEM_DEPLOYMENT == "deployment"
BUILDITEM_SERVICE == "service"

build_names == << BUILD_CRD, BUILD_ACCESSCONTROL, BUILD_CONFIG, BUILD_SERVICE >>

\* builditem_names without the role binding.
builditem_names_short ==
    << BUILDITEM_CONFIG, BUILDITEM_CLUSTER_ROLE, BUILDITEM_SERVICE_ACCOUNT,
       BUILDITEM_DEPLOYMENT, BUILDITEM_SERVICE >>

builditem_names ==
    << BUILDITEM_CONFIG, BUILDITEM_CLUSTER_ROLE, BUILDITEM_SERVICE_ACCOUNT,
       BUILDITEM_CLUSTER_ROLE_BINDING, BUILDITEM_DEPLOYMENT, BUILDITEM_SERVICE >>

\* The format tags Traefik2Builder compares config.config_format with.
CONFIGFORMAT_TOML == "toml"
CONFIGFORMAT_YAML == "yaml"

---------------------------------------------------------------------------
(* crd *)

crd_document(name, kind, plural, singular) ==
    [ apiVersion |-> "apiextensions.k8s.io/v1beta1",
      kind |-> "CustomResourceDefinition",
      metadata |-> [ name |-> name ],
      spec |-> [ group |-> "traefik.containo.us",
                 version |-> "v1alpha1",
                 names |-> [ kind |-> kind, plural |-> plural, singular |-> singular ],
                 scope |-> "Namespaced" ] ]

\* traefik_crd without its last document.
traefik_crd_six ==
    << crd_document("ingressroutes.traefik.containo.us", "IngressRoute",
                    "ingressroutes", "ingressroute"),
       crd_document("middlewares.traefik.containo.us", "Middleware",
                    "middlewares", "middleware"),
       crd_document("ingressroutetcps.traefik.containo.us", "IngressRouteTCP",
                    "ingressroutetcps", "ingressroutetcp"),
       crd_document("ingressrouteudps.traefik.containo.us", "IngressRouteUDP",
                    "ingressrouteudps", "ingressrouteudp"),
       crd_document("tlsoptions.traefik.containo.us", "TLSOption",
                    "tlsoptions", "tlsoption"),
       crd_document("tlsstores.traefik.containo.us", "TLSStore",
                    "tlsstores", "tlsstore") >>

\* The documents yaml.load_all yields.
traefik_crd ==
    << crd_document("ingressroutes.traefik.containo.us", "IngressRoute",
                    "ingressroutes", "ingressroute"),
       crd_document("middlewares.traefik.containo.us", "Middleware",
                    "middlewares", "middleware"),
       crd_document("ingressroutetcps.traefik.containo.us", "IngressRouteTCP",
                    "ingressroutetcps", "ingressroutetcp"),
       crd_document("ingressrouteudps.traefik.containo.us", "IngressRouteUDP",
                    "ingressrouteudps", "ingressrouteudp"),
       crd_document("tlsoptions.traefik.containo.us", "TLSOption",
                    "tlsoptions", "tlsoption"),
       crd_document("tlsstores.traefik.containo.us", "TLSStore",
                    "tlsstores", "tlsstore"),
       crd_document("traefikservices.traefik.containo.us", "TraefikService",
                    "traefikservices", "traefikservice") >>

internal_build_crd == Return(traefik_crd, configfile)

---------------------------------------------------------------------------
(* accesscontrol *)

ServiceAccount ==
    Object([ apiVersion |-> "v1",
             kind |-> "ServiceAccount",
             metadata |-> [ name |-> object_name("service-account"),
                            namespace |-> namespace ] ],
           BUILDITEM_SERVICE_ACCOUNT, SOURCE_NAME, basename(""))

ClusterRole_rules ==
    << [ apiGroups |-> << "" >>,
         resources |-> << "services", "endpoints", "secrets" >>,
         verbs |-> << "get", "list", "watch" >> ],
       [ apiGroups |-> << "extensions", "networking.k8s.io" >>,
         resources |-> << "ingresses", "ingressclasses" >>,
         verbs |-> << "get", "list", "watch" >> ],
       [ apiGroups |-> << "extensions" >>,
         resources |-> << "ingresses/status" >>,
         verbs |-> << "update" >> ],
       [ apiGroups |-> << "traefik.containo.us" >>,
         resources |-> << "middlewares", "ingressroutes", "traefikservices",
                          "ingressroutetcps", "ingressrouteudps", "tlsoptions",
                          "tlsstores" >>,
         verbs |-> << "get", "list", "watch" >> ] >>

ClusterRole ==
    Object([ apiVersion |-> "rbac.authorization.k8s.io/v1beta1",
             kind |-> "ClusterRole",
             metadata |-> [ name |-> object_name("cluster-role") ],
             rules |-> ClusterRole_rules ],
           BUILDITEM_CLUSTER_ROLE, SOURCE_NAME, basename(""))

ClusterRoleBinding ==
    Object([ apiVersion |-> "rbac.authorization.k8s.io/v1",
             kind |-> "ClusterRoleBinding",
             metadata |-> [ name |-> object_name("cluster-role-binding") ],
             roleRef |-> [ apiGroup |-> "rbac.authorization.k8s.io",
                           kind |-> "ClusterRole",
                           name |-> object_name("cluster-role") ],
             subjects |-> << [ kind |-> "ServiceAccount",
                               name |-> object_name("service-account"),
                               namespace |-> namespace ] >> ],
           BUILDITEM_CLUSTER_ROLE_BINDING, SOURCE_NAME, basename(""))

\* emit_serviceaccount decided by the registry name instead of the option.
emit_serviceaccount_if_named == object_name("service-account") # None

emit_serviceaccount == option_get("config.authorization.serviceaccount_create") # False
emit_clusterrole == option_get("config.authorization.roles_create") # False
emit_clusterrolebinding == option_get("config.authorization.roles_bind") # False

internal_build_accesscontrol ==
    Return((IF emit_serviceaccount THEN << ServiceAccount >> ELSE << >>)
           \o (IF emit_clusterrole THEN << ClusterRole >> ELSE << >>)
           \o (IF emit_clusterrolebinding THEN << ClusterRoleBinding >> ELSE << >>),
           configfile)

---------------------------------------------------------------------------
(* config *)

\* The if/elif/else on option_get('config.config_format') of
\* internal_build_config and configfile_get: the format it selects, or the
\* exception it ends with.  The left operand of each comparison is
\* evaluated first, then the class attribute.
format_select ==
    IF path_unknown("config.config_format") THEN "ConfigurationError"
    ELSE IF "CONFIGFORMAT_TOML" \notin Traefik2Options_attrs THEN "AttributeError"
    ELSE IF option_get("config.config_format") = CONFIGFORMAT_TOML THEN CONFIGFORMAT_TOML
    ELSE IF "CONFIGFORMAT_YAML" \notin Traefik2Options_attrs THEN "AttributeError"
    ELSE IF option_get("config.config_format") = CONFIGFORMAT_YAML THEN CONFIGFORMAT_YAML
    ELSE "InvalidParamError"

format_selected == format_select \in { CONFIGFORMAT_TOML, CONFIGFORMAT_YAML }

\* ConfigFileRenderMulti.render(configfile.get_value(self)): the text the
\* renderer of the selected format gives.
render(format) ==
    IF format = CONFIGFORMAT_TOML THEN "<rendered toml>" ELSE "<rendered yaml>"

\* configfile_get rendering and caching before it looks at the payload.
configfile_get_eager ==
    IF configfile # None THEN Return(configfile, configfile)
    ELSE Return(render(CONFIGFORMAT_YAML), render(CONFIGFORMAT_YAML))

configfile_get ==
    IF configfile # None THEN Return(configfile, configfile)
    ELSE IF path_unknown("config.traefik_config")
         THEN Raise("ConfigurationError", configfile)
    ELSE LET payload == option_get("config.traefik_config")
         IN  IF payload = None THEN Return(None, configfile)
             ELSE IF payload # Template THEN Return(payload, payload)
             ELSE IF ~format_selected THEN Raise(format_select, configfile)
             ELSE Return(render(format_select), render(format_select))

ConfigMap(cfname, text) ==
    Object([ apiVersion |-> "v1",
             kind |-> "ConfigMap",
             metadata |-> [ name |-> object_name("config"),
                            namespace |-> namespace ],
             data |-> (cfname :> text) ],
           BUILDITEM_CONFIG, SOURCE_NAME, basename(""))

internal_build_config ==
    IF path_unknown("config.traefik_config")
    THEN Raise("ConfigurationError", configfile)
    ELSE IF option_get("config.traefik_config") = None
         THEN Return(<< >>, configfile)
    ELSE IF ~format_selected THEN Raise(format_select, configfile)
    ELSE LET cfname == IF format_select = CONFIGFORMAT_TOML
                       THEN "prometheus.toml" ELSE "prometheus.yml"
             text == configfile_get
         IN  IF text.raised # None THEN Raise(text.raised, text.configfile)
             ELSE Return(<< ConfigMap(cfname, text.ret) >>, text.configfile)

---------------------------------------------------------------------------
(* service *)

RECURSIVE container_ports(_)
container_ports(ports) ==
    IF ports = << >> THEN << >>
    ELSE << [ name |-> Head(ports).name,
              containerPort |-> Head(ports).port_container ] >>
         \o container_ports(Tail(ports))

\* service_ports without the in_service test.
service_ports_unfiltered(ports) ==
    [ i \in 1..Len(ports) |-> [ name |-> ports[i].name,
                                protocol |-> ports[i].protocol,
                                port |-> ports[i].port_service ] ]

RECURSIVE service_ports(_)
service_ports(ports) ==
    IF ports = << >> THEN << >>
    ELSE (IF Head(ports).in_service
          THEN << [ name |-> Head(ports).name,
                    protocol |-> Head(ports).protocol,
                    port |-> Head(ports).port_service ] >>
          ELSE << >>)
         \o service_ports(Tail(ports))

build_container_ports == container_ports(option_get("config.ports"))
build_service_ports == service_ports(option_get("config.ports"))

Deployment ==
    Object([ kind |-> "Deployment",
             apiVersion |-> "apps/v1",
             metadata |-> [ name |-> object_name("deployment"),
                            namespace |-> namespace,
                            labels |-> [ app |-> object_name("pod-label-app") ] ],
             spec |-> [
                selector |-> [ matchLabels |-> [ app |-> object_name("pod-label-app") ] ],
                template |-> [
                    metadata |-> [
                        labels |-> [ app |-> object_name("pod-label-app") ],
                        annotations |-> ValueData(
                            [ scrape |-> "true", path |-> "/metrics",
                              port |-> option_get("config.prometheus_port") ],
                            option_get("config.enable_prometheus") # False
                            /\ option_get("config.prometheus_annotation") # False) ],
                    spec |-> [
                        serviceAccountName |->
                            ValueData_disabled_if_none(object_name("service-account")),
                        volumes |-> <<
                            ValueData([ name |-> "traefik2-config",
                                        configMap |-> [ name |-> object_name("config") ] ],
                                      option_get("config.traefik_config") # None) >>,
                        containers |-> << [
                            name |-> "traefik",
                            image |-> option_get("container.traefik2"),
                            args |-> option_get("config.traefik_args"),
                            ports |-> build_container_ports,
                            volumeMounts |-> <<
                                ValueData([ name |-> "traefik2-config",
                                            mountPath |-> "/etc/traefik" ],
                                          option_get("config.traefik_config") # None) >>,
                            resources |-> ValueData_disabled_if_none(
                                option_get("kubernetes.resources.deployment")) ] >> ] ] ] ],
           BUILDITEM_DEPLOYMENT, SOURCE_NAME, basename(""))

Service ==
    Object([ apiVersion |-> "v1",
             kind |-> "Service",
             metadata |-> [ name |-> object_name("service"),
                            namespace |-> namespace ],
             spec |-> [ selector |-> [ app |-> object_name("pod-label-app") ],
                        ports |-> build_service_ports ] ],
           BUILDITEM_SERVICE, SOURCE_NAME, basename(""))

\* The option paths internal_build_service resolves, in evaluation order.
service_option_reads ==
    << "config.prometheus_port", "config.enable_prometheus",
       "config.prometheus_annotation", "config.traefik_config",
       "container.traefik2", "config.traefik_args", "config.ports",
       "kubernetes.resources.deployment" >>

internal_build_service ==
    IF \E i \in DOMAIN service_option_reads : path_unknown(service_option_reads[i])
    THEN Raise("ConfigurationError", configfile)
    ELSE Return(<< Deployment, Service >>, configfile)

---------------------------------------------------------------------------
(* Dispatch and the calls a caller makes on a constructed builder *)

internal_build(buildname) ==
    IF buildname = BUILD_CRD THEN internal_build_crd
    ELSE IF buildname = BUILD_ACCESSCONTROL THEN internal_build_accesscontrol
    ELSE IF buildname = BUILD_CONFIG THEN internal_build_config
    ELSE IF buildname = BUILD_SERVICE THEN internal_build_service
    ELSE Raise("InvalidNameError", configfile)

names_required ==
    IF path_unknown("config.create_traefik_crd") \/ path_unknown("config.traefik_config")
    THEN Raise("ConfigurationError", configfile)
    ELSE Return(<< BUILD_SERVICE >>
                \o (IF option_get("config.create_traefik_crd") # False
                    THEN << BUILD_CRD >> ELSE << >>)
                \o (IF option_get("config.traefik_config") # None
                    THEN << BUILD_CONFIG >> ELSE << >>)
                \o (IF option_get("config.authorization.serviceaccount_create") # False
                       \/ option_get("config.authorization.roles_create") # False
                    THEN << BUILD_ACCESSCONTROL >> ELSE << >>),
                configfile)

\* What a caller passes to build(): the four groups and a name that is none.
BuildNameInputs == { build_names[i] : i \in DOMAIN build_names } \cup { "bogus" }

build ==
    /\ phase = "constructed"
    /\ \E buildname \in BuildNameInputs :
          LET out == internal_build(buildname)
          IN  /\ result' = [ op |-> "build", arg |-> buildname,
                             raised |-> out.raised, ret |-> out.ret ]
              /\ configfile' = out.configfile
    /\ UNCHANGED <<options, phase, error, namespace_attr, object_names>>

build_names_required ==
    /\ phase = "constructed"
    /\ result' = [ op |-> "build_names_required", arg |-> None,
                   raised |-> names_required.raised, ret |-> names_required.ret ]
    /\ configfile' = names_required.configfile
    /\ UNCHANGED <<options, phase, error, namespace_attr, object_names>>

call_configfile_get ==
    /\ phase = "constructed"
    /\ result' = [ op |-> "configfile_get", arg |-> None,
                   raised |-> configfile_get.raised, ret |-> configfile_get.ret ]
    /\ configfile' = configfile_get.configfile
    /\ UNCHANGED <<options, phase, error, namespace_attr, object_names>>

---------------------------------------------------------------------------
(* Inputs *)

Absent == "<absent>"

\* The values each scalar option is drawn from; Absent leaves it out of the
\* option instance.
Choices ==
    [ p \in { "basename", "namespace", "config.create_traefik_crd",
              "config.enable_prometheus", "config.prometheus_annotation",
              "config.authorization.serviceaccount_create",
              "config.authorization.serviceaccount_use",
              "config.authorization.roles_create",
              "config.authorization.roles_bind",
              "kubernetes.resources.deployment",
              "config.traefik_config", "config.config_format" } |->
        CASE p = "basename" -> { Absent, "mytraefik2" }
          [] p = "namespace" -> { Absent, "myns" }
          [] p = "config.create_traefik_crd" -> { Absent, False }
          [] p = "config.enable_prometheus" -> { Absent, False }
          [] p = "config.prometheus_annotation" -> { Absent, True }
          [] p = "config.authorization.serviceaccount_create" -> { Absent, True, False }
          [] p = "config.authorization.serviceaccount_use" -> { Absent, "", "existing-sa" }
          [] p = "config.authorization.roles_create" -> { Absent, False }
          [] p = "config.authorization.roles_bind" -> { Absent, False }
          [] p = "kubernetes.resources.deployment" -> { Absent, "<resources>" }
          [] p = "config.traefik_config" -> { Absent, "<config text>", Template }
          [] p = "config.config_format" -> { Absent, "toml", "yaml", "json" } ]

Supplied(f) == [ p \in { q \in DOMAIN f : f[q] # Absent } |-> f[p] ]

Init ==
    /\ \E bn \in Choices["basename"], ns \in Choices["namespace"],
          crd \in Choices["config.create_traefik_crd"],
          ep \in Choices["config.enable_prometheus"],
          pa \in Choices["config.prometheus_annotation"],
          sc \in Choices["config.authorization.serviceaccount_create"],
          su \in Choices["config.authorization.serviceaccount_use"],
          rc \in Choices["config.authorization.roles_create"],
          rb \in Choices["config.authorization.roles_bind"],
          res \in Choices["kubernetes.resources.deployment"],
          tc \in Choices["config.traefik_config"],
          cf \in Choices["config.config_format"] :
          options = Supplied(
              ("basename" :> bn) @@ ("namespace" :> ns)
              @@ ("config.create_traefik_crd" :> crd)
              @@ ("config.enable_prometheus" :> ep)
              @@ ("config.prometheus_annotation" :> pa)
              @@ ("config.authorization.serviceaccount_create" :> sc)
              @@ ("config.authorization.serviceaccount_use" :> su)
              @@ ("config.authorization.roles_create" :> rc)
              @@ ("config.authorization.roles_bind" :> rb)
              @@ ("kubernetes.resources.deployment" :> res)
              @@ ("config.traefik_config" :> tc)
              @@ ("config.config_format" :> cf) )
    /\ phase = "new"
    /\ error = None
    /\ namespace_attr = None
    /\ object_names = NoNames
    /\ configfile = None
    /\ result = NoResult

Next ==
    \/ __init__
    \/ build
    \/ build_names_required
    \/ call_configfile_get

Spec == Init /\ [][Next]_vars

---------------------------------------------------------------------------
(* The option instance as the caller wrote it, read without the resolver *)

given(path) == path \in DOMAIN options
switched_off(path) == given(path) /\ options[path] = False
resolved_basename == IF given("basename") THEN options["basename"] ELSE "traefik2"
resolved_namespace == IF given("namespace") THEN options["namespace"] ELSE "default"

roles_bind_on == ~switched_off("config.authorization.roles_bind")
roles_create_on == ~switched_off("config.authorization.roles_create")
serviceaccount_create_on == ~switched_off("config.authorization.serviceaccount_create")

\* serviceaccount_create disabled and serviceaccount_use absent or empty
no_serviceaccount ==
    /\ ~serviceaccount_create_on
    /\ \/ ~given("config.authorization.serviceaccount_use")
       \/ options["config.authorization.serviceaccount_use"] = ""

built(buildname) ==
    result.op = "build" /\ result.arg = buildname /\ result.raised = None

\* The indices of the items of the last result whose object is of a kind.
of_kind(kind) == { i \in DOMAIN result.ret : result.ret[i].data.kind = kind }

---------------------------------------------------------------------------
(* C1: with roles_bind enabled, construction fails with InvalidParamError  *)
(* whenever the service-account name is None (serviceaccount_create        *)
(* disabled and serviceaccount_use absent or empty) or the role name is    *)
(* None (roles_create disabled); the registry is then still empty, no call *)
(* on the builder has produced anything, and when both are missing the     *)
(* error raised is the service-account one.                                *)
C1_BindNeedsAccountAndRole ==
    (phase # "new" /\ roles_bind_on /\ (no_serviceaccount \/ ~roles_create_on))
    => /\ phase = "failed"
       /\ result.op = "__init__"
       /\ result.raised = "InvalidParamError"
       /\ result.ret = << >>
       /\ object_names = NoNames
       /\ no_serviceaccount => error = "To bind roles a service account is required"
       /\ ~no_serviceaccount => error = "To bind roles the role must be created"

C1_Witness ==
    /\ phase = "failed"
    /\ roles_bind_on /\ no_serviceaccount /\ ~roles_create_on
    /\ error = "To bind roles a service account is required"

(* C2: after a successful construction object_name('service') and          *)
(* object_name('deployment') both equal the resolved basename: 'traefik2'  *)
(* when basename is not supplied, the supplied value otherwise.            *)
C2_ServiceAndDeploymentNamedBasename ==
    phase = "constructed"
    => /\ object_name("service") = resolved_basename
       /\ object_name("deployment") = resolved_basename

C2_Witness ==
    /\ phase = "constructed"
    /\ given("basename")
    /\ object_name("service") = "mytraefik2"
    /\ object_name("deployment") = "mytraefik2"

(* C3: on every constructed builder build('service') completes without     *)
(* error and returns exactly a Deployment named 'deployment' and a Service *)
(* named 'service', in this order, each with metadata.name the registry    *)
(* name and metadata.namespace the resolved namespace.                     *)
C3_ServiceBuildReturnsDeploymentAndService ==
    (phase = "constructed" /\ result.op = "build" /\ result.arg = BUILD_SERVICE)
    => /\ result.raised = None
       /\ Len(result.ret) = 2
       /\ result.ret[1].name = "deployment"
       /\ result.ret[1].data.kind = "Deployment"
       /\ result.ret[1].data.metadata.name = object_name("deployment")
       /\ result.ret[1].data.metadata.namespace = resolved_namespace
       /\ result.ret[2].name = "service"
       /\ result.ret[2].data.kind = "Service"
       /\ result.ret[2].data.metadata.name = object_name("service")
       /\ result.ret[2].data.metadata.namespace = resolved_namespace

(* C4: after a successful construction the registry holds: for             *)
(* 'service-account' the basename if serviceaccount_create is enabled,     *)
(* else the serviceaccount_use value if it is non-empty, else None; for    *)
(* 'cluster-role' the basename if roles_create is enabled, else None; for  *)
(* 'cluster-role-binding' the basename if roles_bind is enabled, else None.*)
C4_RegistryReflectsAuthorization ==
    phase = "constructed"
    => /\ object_names["service-account"] =
            IF serviceaccount_create_on THEN resolved_basename
            ELSE IF no_serviceaccount THEN None
            ELSE options["config.authorization.serviceaccount_use"]
       /\ object_names["cluster-role"] =
            IF roles_create_on THEN resolved_basename ELSE None
       /\ object_names["cluster-role-binding"] =
            IF roles_bind_on THEN resolved_basename ELSE None

C4_Witness ==
    /\ phase = "constructed"
    /\ ~serviceaccount_create_on
    /\ object_names["service-account"] = "existing-sa"
    /\ object_names["cluster-role"] = None
    /\ object_names["cluster-role-binding"] = None

(* C5 as claimed: build('accesscontrol') emits a ServiceAccount iff the    *)
(* registry name 'service-account' is non-None, a ClusterRole iff          *)
(* 'cluster-role' is non-None, a ClusterRoleBinding iff                    *)
(* 'cluster-role-binding' is non-None.                                     *)
C5_EmittedIffRegistryNamed ==
    built(BUILD_ACCESSCONTROL)
    => /\ of_kind("ServiceAccount") # {} <=> object_names["service-account"] # None
       /\ of_kind("ClusterRole") # {} <=> object_names["cluster-role"] # None
       /\ of_kind("ClusterRoleBinding") # {} <=> object_names["cluster-role-binding"] # None

(* C5 amended: build('accesscontrol') emits a ServiceAccount iff           *)
(* serviceaccount_create is enabled (then the registry name is non-None;   *)
(* a registry name taken from serviceaccount_use is non-None and no        *)
(* ServiceAccount is emitted for it), a ClusterRole iff 'cluster-role' is  *)
(* non-None, a ClusterRoleBinding iff 'cluster-role-binding' is non-None.  *)
C5_EmittedIffCreated ==
    built(BUILD_ACCESSCONTROL)
    => /\ of_kind("ServiceAccount") # {} <=> serviceaccount_create_on
       /\ of_kind("ServiceAccount") # {} => object_names["service-account"] # None
       /\ of_kind("ClusterRole") # {} <=> object_names["cluster-role"] # None
       /\ of_kind("ClusterRoleBinding") # {} <=> object_names["cluster-role-binding"] # None

C5_Witness ==
    /\ built(BUILD_ACCESSCONTROL)
    /\ object_names["service-account"] = "existing-sa"
    /\ of_kind("ServiceAccount") = {}
    /\ of_kind("ClusterRole") # {}
    /\ of_kind("ClusterRoleBinding") # {}

(* C6: every ClusterRoleBinding build('accesscontrol') emits has           *)
(* roleRef.name equal to the registry 'cluster-role' name and its subject  *)
(* name equal to the registry 'service-account' name, both non-None, and   *)
(* the same result holds a ClusterRole whose metadata.name is roleRef.name.*)
C6_NoDanglingRoleBinding ==
    built(BUILD_ACCESSCONTROL)
    => \A i \in of_kind("ClusterRoleBinding") :
          LET binding == result.ret[i].data
          IN  /\ binding.roleRef.name = object_names["cluster-role"]
              /\ binding.roleRef.name # None
              /\ Len(binding.subjects) = 1
              /\ binding.subjects[1].name = object_names["service-account"]
              /\ binding.subjects[1].name # None
              /\ \E j \in of_kind("ClusterRole") :
                    result.ret[j].data.metadata.name = binding.roleRef.name

C6_Witness ==
    /\ built(BUILD_ACCESSCONTROL)
    /\ \E i \in of_kind("ClusterRoleBinding") :
          /\ result.ret[i].data.subjects[1].name = "existing-sa"
          /\ result.ret[i].data.roleRef.name = "mytraefik2"

\* The kinds the documents of the last result define, in order.
crd_kinds == [ i \in DOMAIN result.ret |-> result.ret[i].spec.names.kind ]

(* C7 as claimed: build('crd') returns exactly six                         *)
(* CustomResourceDefinition documents: IngressRoute, Middleware,           *)
(* IngressRouteTCP, IngressRouteUDP, TLSOption, TLSStore.                  *)
C7_SixDefinitions ==
    (result.op = "build" /\ result.arg = BUILD_CRD)
    => /\ result.raised = None
       /\ crd_kinds = << "IngressRoute", "Middleware", "IngressRouteTCP",
                         "IngressRouteUDP", "TLSOption", "TLSStore" >>

(* C7 amended: build('crd') returns, whatever the options and              *)
(* create_traefik_crd, the same seven CustomResourceDefinition documents:  *)
(* IngressRoute, Middleware, IngressRouteTCP, IngressRouteUDP, TLSOption,  *)
(* TLSStore and TraefikService, in this order.                             *)
C7_SevenDefinitions ==
    (result.op = "build" /\ result.arg = BUILD_CRD)
    => /\ result.raised = None
       /\ \A i \in DOMAIN result.ret :
             /\ result.ret[i].kind = "CustomResourceDefinition"
             /\ result.ret[i].apiVersion = "apiextensions.k8s.io/v1beta1"
       /\ crd_kinds = << "IngressRoute", "Middleware", "IngressRouteTCP",
                         "IngressRouteUDP", "TLSOption", "TLSStore",
                         "TraefikService" >>

C7_Witness ==
    /\ result.op = "build" /\ result.arg = BUILD_CRD
    /\ switched_off("config.create_traefik_crd")
    /\ Len(result.ret) = 7
    /\ result.ret[7].metadata.name = "traefikservices.traefik.containo.us"

\* The names the last result lists.
listed == { result.ret[i] : i \in DOMAIN result.ret }

(* C8: on every constructed builder build_names_required() lists          *)
(* 'service', lists 'accesscontrol' iff build('accesscontrol') returns a   *)
(* non-empty sequence, and lists 'config' iff build('config') returns a    *)
(* non-empty sequence.                                                     *)
C8_RequiredNamesMatchBuilds ==
    (phase = "constructed" /\ result.op = "build_names_required")
    => /\ result.raised = None
       /\ BUILD_SERVICE \in listed
       /\ BUILD_ACCESSCONTROL \in listed
            <=> (internal_build_accesscontrol.raised = None
                 /\ internal_build_accesscontrol.ret # << >>)
       /\ BUILD_CONFIG \in listed
            <=> (internal_build_config.raised = None
                 /\ internal_build_config.ret # << >>)

\* The pod spec of the Deployment the last result holds.
pod_spec == result.ret[1].data.spec.template.spec
enabled_entries(values) == { i \in DOMAIN values : values[i].enabled }

(* C9: without config.traefik_config, build('config') returns an empty     *)
(* sequence and the Deployment of build('service') has no config volume    *)
(* and no config volume mount; with it, the Deployment has exactly one     *)
(* config volume and one mount, and the volume's configMap name is the     *)
(* registry 'config' name, basename + '-config'.                           *)
C9_ConfigVolumeIffPayload ==
    /\ (phase = "constructed" /\ result.op = "build" /\ result.arg = BUILD_CONFIG
        /\ ~given("config.traefik_config"))
       => (result.raised = None /\ result.ret = << >>)
    /\ (phase = "constructed" /\ result.op = "build" /\ result.arg = BUILD_SERVICE)
       => /\ result.raised = None
          /\ Len(result.ret) = 2
          /\ ~given("config.traefik_config")
             => /\ enabled_entries(pod_spec.volumes) = {}
                /\ enabled_entries(pod_spec.containers[1].volumeMounts) = {}
          /\ given("config.traefik_config")
             => /\ Cardinality(enabled_entries(pod_spec.volumes)) = 1
                /\ Cardinality(enabled_entries(pod_spec.containers[1].volumeMounts)) = 1
                /\ pod_spec.volumes[1].value.configMap.name = object_names["config"]
                /\ object_names["config"] = resolved_basename \o "-config"

(* C10: with a configuration payload, build('config') emits exactly one    *)
(* ConfigMap whose data has the single key 'prometheus.toml' for the TOML  *)
(* format and 'prometheus.yml' for the YAML format, holding the rendered   *)
(* text; for any other format it fails, emits no ConfigMap and leaves the  *)
(* cached configuration text unset.                                        *)
C10_ConfigMapKeyedByFormat ==
    (phase = "constructed" /\ result.op = "build" /\ result.arg = BUILD_CONFIG
     /\ given("config.traefik_config") /\ given("config.config_format"))
    => IF options["config.config_format"] \in { "toml", "yaml" }
       THEN /\ result.raised = None
            /\ Len(result.ret) = 1
            /\ result.ret[1].data.kind = "ConfigMap"
            /\ DOMAIN result.ret[1].data.data =
                 { IF options["config.config_format"] = "toml"
                   THEN "prometheus.toml" ELSE "prometheus.yml" }
            /\ \A k \in DOMAIN result.ret[1].data.data :
                  result.ret[1].data.data[k] = configfile
       ELSE /\ result.raised # None
            /\ result.ret = << >>
            /\ configfile = None

\* The configuration text the last result carries: what configfile_get
\* returned, or the value under the single data key of the ConfigMap.
returned_text ==
    IF result.op = "configfile_get" THEN result.ret
    ELSE LET data == result.ret[1].data.data
         IN  data[CHOOSE k \in DOMAIN data : TRUE]

(* C11: on a builder whose payload is a structured template (with the TOML *)
(* or YAML format), every configfile_get() and build('config') call        *)
(* returns the text rendered first: the call succeeds, the cache holds a   *)
(* text, and the call returns exactly the cached text.                     *)
C11_EveryCallReturnsCachedText ==
    (/\ phase = "constructed"
     /\ given("config.traefik_config") /\ options["config.traefik_config"] = Template
     /\ given("config.config_format")
     /\ options["config.config_format"] \in { "toml", "yaml" }
     /\ \/ result.op = "configfile_get"
        \/ result.op = "build" /\ result.arg = BUILD_CONFIG)
    => /\ result.raised = None
       /\ configfile # None
       /\ result.op = "build" => Len(result.ret) = 1
       /\ returned_text = configfile

\* The pod template of the Deployment the last result holds.
deployment_template == result.ret[1].data.spec.template

(* C13: in the Deployment of build('service') the Prometheus annotations   *)
(* are enabled iff enable_prometheus and prometheus_annotation are both    *)
(* true, serviceAccountName iff the registry 'service-account' name is     *)
(* non-None, the container resources iff kubernetes.resources.deployment   *)
(* is supplied; a field that is not enabled is marked for omission.        *)
C13_OptionalFieldsFollowPredicates ==
    (phase = "constructed" /\ result.op = "build" /\ result.arg = BUILD_SERVICE)
    => /\ result.raised = None
       /\ Len(result.ret) = 2
       /\ deployment_template.metadata.annotations.enabled
            <=> (/\ ~switched_off("config.enable_prometheus")
                 /\ given("config.prometheus_annotation")
                 /\ options["config.prometheus_annotation"] = True)
       /\ deployment_template.spec.serviceAccountName.enabled
            <=> object_names["service-account"] # None
       /\ deployment_template.spec.containers[1].resources.enabled
            <=> given("kubernetes.resources.deployment")

(* C15: once the builder is constructed, a build(), build_names_required() *)
(* or configfile_get() call leaves the options, the registry, the resolved *)
(* namespace and the construction outcome as they were; the cached         *)
(* configuration text changes only from unset to a text, and only when a   *)
(* configuration payload is supplied.                                      *)
C15_CallsChangeOnlyTheCache ==
    [][ phase = "constructed"
        => /\ phase' = phase
           /\ error' = error
           /\ options' = options
           /\ object_names' = object_names
           /\ namespace_attr' = namespace_attr
           /\ configfile' # configfile
                => /\ configfile = None
                   /\ configfile' # None
                   /\ given("config.traefik_config") ]_vars

C15_Witness ==
    /\ phase = "constructed"
    /\ result.op = "configfile_get"
    /\ given("config.traefik_config")
    /\ object_names = object_names_init
    /\ namespace_attr = resolved_namespace
    /\ configfile = None

\* The build-item names builditem_names() lists.
declared_items == { builditem_names[i] : i \in DOMAIN builditem_names }

(* C16 as claimed: every item build() returns, for any build group, is an  *)
(* ObjectItem whose name is one of builditem_names().                      *)
C16_EveryItemNamed ==
    (result.op = "build" /\ result.raised = None)
    => \A i \in DOMAIN result.ret :
          /\ "name" \in DOMAIN result.ret[i]
          /\ result.ret[i].name \in declared_items

(* C16 amended: every item build() returns for the groups accesscontrol,   *)
(* config and service is an Object whose name is one of builditem_names(); *)
(* the items of the group crd are the raw documents of the CRD YAML, which *)
(* carry no build-item name, source or instance.                           *)
C16_ItemsNamedExceptCrd ==
    (result.op = "build" /\ result.raised = None)
    => \A i \in DOMAIN result.ret :
          IF result.arg = BUILD_CRD
          THEN DOMAIN result.ret[i] \cap { "name", "source", "instance" } = {}
          ELSE /\ { "name", "source", "instance", "data" } \subseteq DOMAIN result.ret[i]
               /\ result.ret[i].name \in declared_items
               /\ result.ret[i].source = "kg_traefik2"

C16_Witness ==
    /\ built(BUILD_ACCESSCONTROL)
    /\ Len(result.ret) = 3
    /\ result.ret[3].name = "cluster-role-binding"

---------------------------------------------------------------------------
(* Port descriptors and the port lists derived from them *)

\* Traefik2OptionsPort.__init__: an argument left out (Absent) takes the
\* default of the signature.
Traefik2OptionsPort(name, port_container, protocol, in_service, port_service) ==
    [ name |-> name,
      port_container |-> port_container,
      port_service |-> IF port_service = Absent THEN None ELSE port_service,
      protocol |-> IF protocol = Absent THEN "TCP" ELSE protocol,
      in_service |-> IF in_service = Absent THEN TRUE ELSE in_service = True ]

MaxPorts == 3

\* The descriptors a config.ports sequence is drawn from.
PortDescriptors ==
    { Traefik2OptionsPort(n, IF n = "C" THEN "9000" ELSE "80",
                          IF n = "C" THEN "UDP" ELSE Absent, ins, ps) :
        n \in { "A", "B", "C" }, ins \in { Absent, False }, ps \in { Absent, "8080" } }

PortSequences == UNION { [ 1..n -> PortDescriptors ] : n \in 0..MaxPorts }

InitPorts ==
    /\ \/ options = [ k \in {} |-> None ]
       \/ \E ports \in PortSequences : options = ("config.ports" :> ports)
    /\ phase = "new"
    /\ error = None
    /\ namespace_attr = None
    /\ object_names = NoNames
    /\ configfile = None
    /\ result = NoResult

call_build_container_ports ==
    /\ phase = "constructed"
    /\ result' = [ op |-> "_build_container_ports", arg |-> None,
                   raised |-> None, ret |-> build_container_ports ]
    /\ UNCHANGED <<options, phase, error, namespace_attr, object_names, configfile>>

call_build_service_ports ==
    /\ phase = "constructed"
    /\ result' = [ op |-> "_build_service_ports", arg |-> None,
                   raised |-> None, ret |-> build_service_ports ]
    /\ UNCHANGED <<options, phase, error, namespace_attr, object_names, configfile>>

NextPorts ==
    \/ __init__
    \/ call_build_container_ports
    \/ call_build_service_ports

SpecPorts == InitPorts /\ [][NextPorts]_vars

\* The port descriptors the builder was given: config.ports, or its default.
given_ports ==
    IF given("config.ports") THEN options["config.ports"] ELSE DefaultPorts

is_exposed(port) == port.in_service

(* C12: the container port list has exactly one entry (name, container     *)
(* port) per descriptor, in input order; the Service port list is the      *)
(* subsequence of the descriptors whose in_service flag is true, in the    *)
(* same relative order, each entry carrying the descriptor's name,         *)
(* protocol and service-facing port number.                                *)
C12_PortListsFollowDescriptors ==
    /\ result.op = "_build_container_ports"
       => /\ Len(result.ret) = Len(given_ports)
          /\ \A i \in DOMAIN result.ret :
                result.ret[i] = [ name |-> given_ports[i].name,
                                  containerPort |-> given_ports[i].port_container ]
    /\ result.op = "_build_service_ports"
       => LET exposed == SelectSeq(given_ports, is_exposed)
          IN  /\ Len(result.ret) = Len(exposed)
              /\ \A i \in DOMAIN result.ret :
                    result.ret[i] = [ name |-> exposed[i].name,
                                      protocol |-> exposed[i].protocol,
                                      port |-> exposed[i].port_service ]

C12_Witness ==
    /\ result.op = "_build_service_ports"
    /\ Len(given_ports) = 3
    /\ given_ports[1].name = "A" /\ given_ports[1].in_service
    /\ given_ports[2].name = "B" /\ ~given_ports[2].in_service
    /\ given_ports[3].name = "C" /\ given_ports[3].in_service
    /\ Len(result.ret) = 2
    /\ result.ret[1].name = "A"
    /\ result.ret[2].name = "C" /\ result.ret[2].protocol = "UDP"

(* C17: every entry of the Service port list carries a concrete (non-null) *)
(* port number, also for a descriptor built with only a name and a         *)
(* container port (in_service defaulting to true, port_service unset).     *)
C17_ServicePortsHaveNumbers ==
    result.op = "_build_service_ports"
    => \A i \in DOMAIN result.ret : result.ret[i].port # None

---------------------------------------------------------------------------
(* The configuration-file template: Traefik2ConfigFile of configfile.py.   *)
(* A configuration value is a tree: Leaf(v) is a scalar, Map(f) a mapping  *)
(* from keys to trees.  In this part options is the template's own         *)
(* Traefik2ConfigFileOptions instance.                                     *)

Leaf(value) == [ t |-> "leaf", v |-> value ]
Map(entries) == [ t |-> "map", v |-> entries ]
EmptyMapping == [ k \in {} |-> Leaf(None) ]

\* Merger.merge(base, override): mappings merge key by key, recursively;
\* anything else at a colliding key is taken from the override.
RECURSIVE Merger_merge(_, _)
Merger_merge(base, override) ==
    IF base.t = "map" /\ override.t = "map"
    THEN Map([ k \in DOMAIN base.v \cup DOMAIN override.v |->
                 IF k \in DOMAIN base.v /\ k \in DOMAIN override.v
                 THEN Merger_merge(base.v[k], override.v[k])
                 ELSE IF k \in DOMAIN override.v THEN override.v[k]
                 ELSE base.v[k] ])
    ELSE override

init_value ==
    Map("global" :> Map(("checkNewVersion" :> Leaf(False))
                        @@ ("sendAnonymousUsage" :> Leaf(False))))

\* finish_value replacing the top-level keys instead of merging into them.
finish_value_shallow(data) ==
    IF "config.merge_config" \in DOMAIN options
    THEN LET override == options["config.merge_config"]
         IN  Map([ k \in DOMAIN data.v \cup DOMAIN override.v |->
                     IF k \in DOMAIN override.v THEN override.v[k] ELSE data.v[k] ])
    ELSE data

\* config.merge_config is None when the option instance does not supply it.
finish_value(data) ==
    IF "config.merge_config" \in DOMAIN options
    THEN Merger_merge(data, options["config.merge_config"])
    ELSE data

\* ConfigFile_Extend.get_value with no extensions.
get_value == finish_value(init_value)

MaxCalls == 2

\* The mappings config.merge_config is drawn from: an optional 'global'
\* entry (a scalar, or a mapping of some of three keys) and an optional
\* 'log' entry (a scalar or a mapping).
GlobalOverrides ==
    { Leaf("off") } \cup
    { Map(entries) :
        entries \in UNION { [ keys -> { Leaf(True), Leaf(False) } ] :
                            keys \in SUBSET { "checkNewVersion",
                                              "sendAnonymousUsage", "extra" } } }

LogOverrides == { Leaf("DEBUG"), Map("level" :> Leaf("DEBUG")) }

MergeConfigs ==
    { Map(EmptyMapping) }
    \cup { Map("global" :> g) : g \in GlobalOverrides }
    \cup { Map("log" :> l) : l \in LogOverrides }
    \cup { Map(("global" :> g) @@ ("log" :> l)) : g \in GlobalOverrides, l \in LogOverrides }

InitConfigFile ==
    /\ \/ options = [ k \in {} |-> None ]
       \/ \E override \in MergeConfigs : options = ("config.merge_config" :> override)
    /\ phase = "template"
    /\ error = None
    /\ namespace_attr = None
    /\ object_names = NoNames
    /\ configfile = None
    /\ result = [ op |-> "none", arg |-> 0, raised |-> None, ret |-> << >> ]

\* One more computation of the template's value; arg counts them.
call_get_value ==
    /\ phase = "template"
    /\ result.arg < MaxCalls
    /\ result' = [ op |-> "get_value", arg |-> result.arg + 1,
                   raised |-> None, ret |-> get_value ]
    /\ UNCHANGED <<options, phase, error, namespace_attr, object_names, configfile>>

NextConfigFile ==
    \/ call_get_value

SpecConfigFile == InitConfigFile /\ [][NextConfigFile]_vars

\* The entry of the override under 'global', when it is a mapping.
override_has_global_map ==
    /\ given("config.merge_config")
    /\ "global" \in DOMAIN options["config.merge_config"].v
    /\ options["config.merge_config"].v["global"].t = "map"

(* C14: the template's value is the baseline {global: {checkNewVersion:    *)
(* false, sendAnonymousUsage: false}} deep-merged with merge_config:       *)
(* without an override it is the baseline; every top-level key other than  *)
(* 'global' comes from the override; under a mapping override of 'global'  *)
(* each key the override names takes the override's value and each other   *)
(* baseline key stays false (so {global: {checkNewVersion: true}} changes  *)
(* only checkNewVersion); and a second computation gives the same value.   *)
C14_BaselineDeepMerged ==
    result.op = "get_value"
    => LET value == result.ret.v
           baseline == ("checkNewVersion" :> Leaf(False))
                       @@ ("sendAnonymousUsage" :> Leaf(False))
       IN  IF ~given("config.merge_config")
           THEN value = ("global" :> Map(baseline))
           ELSE LET override == options["config.merge_config"].v
                IN  /\ DOMAIN value = { "global" } \cup DOMAIN override
                    /\ \A k \in DOMAIN override \ { "global" } : value[k] = override[k]
                    /\ "global" \notin DOMAIN override => value["global"] = Map(baseline)
                    /\ ("global" \in DOMAIN override /\ ~override_has_global_map)
                         => value["global"] = override["global"]
                    /\ override_has_global_map
                         => /\ value["global"].t = "map"
                            /\ DOMAIN value["global"].v =
                                 DOMAIN baseline \cup DOMAIN override["global"].v
                            /\ \A k \in DOMAIN value["global"].v :
                                  value["global"].v[k] =
                                    IF k \in DOMAIN override["global"].v
                                    THEN override["global"].v[k]
                                    ELSE Leaf(False)

C14_Witness ==
    /\ result.op = "get_value"
    /\ result.arg = 2
    /\ given("config.merge_config")
    /\ options["config.merge_config"] =
         Map("global" :> Map("checkNewVersion" :> Leaf(True)))
    /\ result.ret = Map("global" :> Map(("checkNewVersion" :> Leaf(True))
                                        @@ ("sendAnonymousUsage" :> Leaf(False))))

====
